---- MODULE Spec2Model ----
(***************************************************************************)
(* Model of the dirty_static crate (src/src/lib.rs).                       *)
(*                                                                         *)
(* The crate compiles exactly one of two `mod internal` definitions of     *)
(* DirtyStatic<T>, chosen by cfg predicates over the features              *)
(* force-static / force-dynamic and debug_assertions:                      *)
(*   - the UnsafeCell variant, whose `replace` overwrites the value in     *)
(*     place (`*ptr = t`, i.e. drop the old value, then move the new one   *)
(*     in) with no synchronisation, and                                    *)
(*   - the plain-field variant, whose `replace` only prints a warning.     *)
(*                                                                         *)
(* Values handed to the wrapper are modelled as objects: object i is the   *)
(* i-th value moved into `new` or `replace`, handed[i] is its content and  *)
(* dropCount[i] how often its destructor has run.  A reference returned by *)
(* `deref` points at the cell, so it is identified by the object that was  *)
(* in the cell when it was taken.  Reading through a reference whose       *)
(* object was dropped or overwritten is undefined behaviour and is         *)
(* modelled as yielding an arbitrary value.                                *)
(***************************************************************************)
EXTENDS Naturals, Sequences, FiniteSets

\* ---- bounds ----
\* Distinct contents a value of type T can have.
MaxValue == 2
\* Threads sharing the instance.
NumThreads == 2
\* Values moved into the wrapper over its lifetime (new plus replace calls).
MaxHanded == 2

Values == 1..MaxValue
Threads == 1..NumThreads

\* The line written by eprintln! in the plain-field variant.
WarningLine == "WARNING: Can't replace in release mode!"

VARIABLES
    force_static,      \* feature = "force-static"
    force_dynamic,     \* feature = "force-dynamic"
    debug_assertions,  \* cfg(debug_assertions)
    stage,             \* "unbuilt", "build_error", "built", "constructed", "dropped"
    internal,          \* the `mod internal` definitions whose cfg predicate held
    handed,            \* contents of the objects moved into new / replace, in order
    dropCount,         \* per object: number of times it was dropped
    cell,              \* object currently stored in the wrapper (0 before new)
    pc,                \* per thread: "idle", "called", "dropped_old"
    arg,               \* per thread: object passed to the replace call in progress
    held,              \* per thread: reference obtained from deref (obj = 0: none)
    epoch,             \* number of overwrites begun on the instance
    stderr,            \* lines written to the diagnostic stream
    completed,         \* argument object of the last replace that finished (0: none)
    lastRead,          \* last value read through a reference, with its context
    raced,             \* a replace overlapped an access of another thread
    retained,          \* a replace was called while a reference was held
    ub                 \* an undefined outcome has occurred

vars == <<force_static, force_dynamic, debug_assertions, stage, internal,
          handed, dropCount, cell, pc, arg, held, epoch, stderr, completed,
          lastRead, raced, retained, ub>>

config == <<force_static, force_dynamic, debug_assertions>>

NoRef == [obj |-> 0, epoch |-> 0]
NoRead == [got |-> 0, len |-> 0, done |-> 0]

\* ---- compile-time selection ----

\* Variant: the error fires as soon as either feature is enabled.
CompileErrorAny == force_static \/ force_dynamic

\* #[cfg(all(feature = "force-static", feature = "force-dynamic"))] compile_error!
CompileErrorCfg == force_static /\ force_dynamic

\* Variant: the predicate without its not(feature = "force-static").
DynamicCfgNoGuard == force_dynamic \/ debug_assertions

\* cfg predicate of the UnsafeCell `mod internal`
DynamicCfg == force_dynamic \/ (~force_static /\ debug_assertions)

\* Variant: the predicate without its not(feature = "force-dynamic").
StaticCfgNoGuard == force_static \/ ~debug_assertions

\* cfg predicate of the plain-field `mod internal`
StaticCfg == force_static \/ (~force_dynamic /\ ~debug_assertions)

SelectedModules ==
    (IF DynamicCfg THEN {"mutable"} ELSE {}) \cup
    (IF StaticCfg THEN {"frozen"} ELSE {})

\* The build fails on compile_error!, on two definitions of `internal`
\* and on `pub use internal::DirtyStatic` with no definition of `internal`.
Compile ==
    /\ stage = "unbuilt"
    /\ internal' = SelectedModules
    /\ stage' = IF CompileErrorCfg \/ Cardinality(SelectedModules) # 1
                THEN "build_error" ELSE "built"
    /\ UNCHANGED <<config, handed, dropCount, cell, pc, arg, held, epoch,
                   stderr, completed, lastRead, raced, retained, ub>>

Mutable == internal = {"mutable"}
Frozen == internal = {"frozen"}

\* ---- runtime ----

Init ==
    /\ force_static \in BOOLEAN
    /\ force_dynamic \in BOOLEAN
    /\ debug_assertions \in BOOLEAN
    /\ stage = "unbuilt"
    /\ internal = {}
    /\ handed = <<>>
    /\ dropCount = <<>>
    /\ cell = 0
    /\ pc = [t \in Threads |-> "idle"]
    /\ arg = [t \in Threads |-> 0]
    /\ held = [t \in Threads |-> NoRef]
    /\ epoch = 0
    /\ stderr = <<>>
    /\ completed = 0
    /\ lastRead = NoRead
    /\ raced = FALSE
    /\ retained = FALSE
    /\ ub = FALSE

\* DirtyStatic::new(t): the value is moved into the wrapper (both variants).
New(v) ==
    /\ stage = "built"
    /\ stage' = "constructed"
    /\ handed' = <<v>>
    /\ dropCount' = <<0>>
    /\ cell' = 1
    /\ UNCHANGED <<config, internal, pc, arg, held, epoch, stderr, completed,
                   lastRead, raced, retained, ub>>

\* A reference is usable while the object it was taken to is still the
\* content of the cell and has not been dropped.
Valid(r) == r.obj # 0 /\ r.obj = cell /\ dropCount[r.obj] = 0

\* Deref::deref: `&*self.0.get()` / `&self.0` -- a reference to the cell.
Deref(t) ==
    /\ stage = "constructed"
    /\ pc[t] = "idle"
    /\ held[t] = NoRef
    /\ held' = [held EXCEPT ![t] = [obj |-> cell, epoch |-> epoch]]
    /\ raced' = (raced \/ \E u \in Threads \ {t} : pc[u] # "idle")
    /\ UNCHANGED <<config, stage, internal, handed, dropCount, cell, pc, arg,
                   epoch, stderr, completed, lastRead, retained, ub>>

\* Variant: the load goes through a pointer that is not the cell's.
UseWild(t) ==
    /\ stage = "constructed"
    /\ pc[t] = "idle"
    /\ held[t] # NoRef
    /\ \E v \in Values :
          lastRead' = [got |-> v, len |-> Len(handed), done |-> completed]
    /\ ub' = TRUE
    /\ UNCHANGED <<config, stage, internal, handed, dropCount, cell, pc, arg,
                   held, epoch, stderr, completed, raced, retained>>

\* A load through the reference (e.g. the `*c` of assert_eq!(*c, 20)).
Use(t) ==
    /\ stage = "constructed"
    /\ pc[t] = "idle"
    /\ held[t] # NoRef
    /\ IF Valid(held[t])
       THEN /\ lastRead' = [got |-> handed[held[t].obj],
                            len |-> Len(handed), done |-> completed]
            /\ ub' = ub
       ELSE /\ \E v \in Values :
                 lastRead' = [got |-> v, len |-> Len(handed), done |-> completed]
            /\ ub' = TRUE
    /\ UNCHANGED <<config, stage, internal, handed, dropCount, cell, pc, arg,
                   held, epoch, stderr, completed, raced, retained>>

\* The borrow ends.
Release(t) ==
    /\ stage = "constructed"
    /\ held[t] # NoRef
    /\ held' = [held EXCEPT ![t] = NoRef]
    /\ UNCHANGED <<config, stage, internal, handed, dropCount, cell, pc, arg,
                   epoch, stderr, completed, lastRead, raced, retained, ub>>

\* UnsafeCell variant, replace: entry, `let ptr = self.0.get();`
ReplaceCall(t, v) ==
    /\ stage = "constructed"
    /\ Mutable
    /\ pc[t] = "idle"
    /\ Len(handed) < MaxHanded
    /\ handed' = Append(handed, v)
    /\ dropCount' = Append(dropCount, 0)
    /\ arg' = [arg EXCEPT ![t] = Len(handed) + 1]
    /\ pc' = [pc EXCEPT ![t] = "called"]
    /\ raced' = (raced \/ \E u \in Threads \ {t} :
                              pc[u] # "idle" \/ held[u] # NoRef)
    /\ retained' = (retained \/ \E u \in Threads : held[u] # NoRef)
    /\ UNCHANGED <<config, stage, internal, cell, held, epoch, stderr,
                   completed, lastRead, ub>>

\* Variant: the overwrite is a ptr::write, the old value is not dropped.
DropOldLeak(t) ==
    /\ pc[t] = "called"
    /\ epoch' = epoch + 1
    /\ pc' = [pc EXCEPT ![t] = "dropped_old"]
    /\ UNCHANGED <<config, stage, internal, handed, dropCount, cell, arg, held,
                   stderr, completed, lastRead, raced, retained, ub>>

\* Variant: the destructor runs on the new value instead of the old one.
DropOldArg(t) ==
    /\ pc[t] = "called"
    /\ dropCount' = [dropCount EXCEPT ![arg[t]] = @ + 1]
    /\ ub' = ub
    /\ epoch' = epoch + 1
    /\ pc' = [pc EXCEPT ![t] = "dropped_old"]
    /\ UNCHANGED <<config, stage, internal, handed, cell, arg, held, stderr,
                   completed, lastRead, raced, retained>>

\* UnsafeCell variant, replace: `*ptr = t`, first half -- the old value is
\* dropped in place.
DropOld(t) ==
    /\ pc[t] = "called"
    /\ dropCount' = [dropCount EXCEPT ![cell] = @ + 1]
    /\ ub' = (ub \/ dropCount[cell] > 0)
    /\ epoch' = epoch + 1
    /\ pc' = [pc EXCEPT ![t] = "dropped_old"]
    /\ UNCHANGED <<config, stage, internal, handed, cell, arg, held, stderr,
                   completed, lastRead, raced, retained>>

\* Variant: the new value is not written to the cell.
StoreNothing(t) ==
    /\ pc[t] = "dropped_old"
    /\ completed' = arg[t]
    /\ arg' = [arg EXCEPT ![t] = 0]
    /\ pc' = [pc EXCEPT ![t] = "idle"]
    /\ UNCHANGED <<config, stage, internal, handed, dropCount, cell, held,
                   epoch, stderr, lastRead, raced, retained, ub>>

\* UnsafeCell variant, replace: `*ptr = t`, second half -- the new value is
\* moved into the cell.
Store(t) ==
    /\ pc[t] = "dropped_old"
    /\ cell' = arg[t]
    /\ ub' = (ub \/ dropCount[cell] = 0)
    /\ completed' = arg[t]
    /\ arg' = [arg EXCEPT ![t] = 0]
    /\ pc' = [pc EXCEPT ![t] = "idle"]
    /\ UNCHANGED <<config, stage, internal, handed, dropCount, held, epoch,
                   stderr, lastRead, raced, retained>>

\* Variant: the plain-field replace stores its argument.
ReplaceFrozenWrites(t, v) ==
    /\ stage = "constructed"
    /\ Frozen
    /\ pc[t] = "idle"
    /\ Len(handed) < MaxHanded
    /\ handed' = Append(handed, v)
    /\ dropCount' = Append([dropCount EXCEPT ![cell] = @ + 1], 0)
    /\ cell' = Len(handed) + 1
    /\ stderr' = Append(stderr, WarningLine)
    /\ UNCHANGED <<config, stage, internal, pc, arg, held, epoch,
                   completed, lastRead, raced, retained, ub>>

\* Variant: the plain-field replace prints nothing.
ReplaceFrozenSilent(t, v) ==
    /\ stage = "constructed"
    /\ Frozen
    /\ pc[t] = "idle"
    /\ Len(handed) < MaxHanded
    /\ handed' = Append(handed, v)
    /\ dropCount' = Append(dropCount, 1)
    /\ UNCHANGED <<config, stage, internal, cell, pc, arg, held, epoch, stderr,
                   completed, lastRead, raced, retained, ub>>

\* Plain-field variant, replace: eprintln!, then `_t` goes out of scope.
ReplaceFrozen(t, v) ==
    /\ stage = "constructed"
    /\ Frozen
    /\ pc[t] = "idle"
    /\ Len(handed) < MaxHanded
    /\ handed' = Append(handed, v)
    /\ dropCount' = Append(dropCount, 1)
    /\ stderr' = Append(stderr, WarningLine)
    /\ UNCHANGED <<config, stage, internal, cell, pc, arg, held, epoch,
                   completed, lastRead, raced, retained, ub>>

\* Variant: the wrapper forgets its field instead of dropping it.
DropWrapperForget ==
    /\ stage = "constructed"
    /\ \A t \in Threads : pc[t] = "idle" /\ held[t] = NoRef
    /\ stage' = "dropped"
    /\ UNCHANGED <<config, internal, handed, dropCount, cell, pc, arg, held,
                   epoch, stderr, completed, lastRead, raced, retained, ub>>

\* The wrapper goes out of scope: its field is dropped.  The borrow checker
\* rules this out while a reference or a call on the wrapper is live.
DropWrapper ==
    /\ stage = "constructed"
    /\ \A t \in Threads : pc[t] = "idle" /\ held[t] = NoRef
    /\ stage' = "dropped"
    /\ dropCount' = [dropCount EXCEPT ![cell] = @ + 1]
    /\ ub' = (ub \/ dropCount[cell] > 0)
    /\ UNCHANGED <<config, internal, handed, cell, pc, arg, held, epoch,
                   stderr, completed, lastRead, raced, retained>>

Next ==
    \/ Compile
    \/ \E v \in Values : New(v)
    \/ \E t \in Threads : Deref(t)
    \/ \E t \in Threads : Use(t)
    \/ \E t \in Threads : Release(t)
    \/ \E t \in Threads, v \in Values : ReplaceCall(t, v)
    \/ \E t \in Threads : DropOld(t)
    \/ \E t \in Threads : Store(t)
    \/ \E t \in Threads, v \in Values : ReplaceFrozen(t, v)
    \/ DropWrapper

Spec == Init /\ [][Next]_vars

\* ---- properties ----

Compiled == stage \in {"built", "constructed", "dropped"}
Alive == stage \in {"constructed", "dropped"}
Objects == 1..Len(handed)

C2_FrozenReplaceKeepsValue ==
    (Frozen /\ Alive)
        => /\ cell = 1
           /\ lastRead # NoRead => lastRead.got = handed[1]

C2_Witness ==
    /\ Frozen
    /\ lastRead.len = MaxHanded
    /\ \A i \in 2..MaxHanded : handed[i] # handed[1]
    /\ lastRead.got = handed[1]

\* C3: every valid configuration builds, and builds the variant of the
\* decision table: force-dynamic gives the UnsafeCell variant, force-static
\* the plain-field variant, and with neither a debug build is mutable and a
\* release build frozen.
C3_DecisionTable ==
    (stage # "unbuilt" /\ ~(force_static /\ force_dynamic))
        => /\ Compiled
           /\ force_dynamic => Mutable
           /\ force_static => Frozen
           /\ (~force_dynamic /\ ~force_static /\ debug_assertions) => Mutable
           /\ (~force_dynamic /\ ~force_static /\ ~debug_assertions) => Frozen

C3_Witness ==
    /\ stage = "constructed"
    /\ force_dynamic /\ ~force_static /\ ~debug_assertions
    /\ Mutable

\* C4: for every configuration that is not rejected exactly one of the two
\* cfg predicates holds, and every compiled artifact contains exactly one
\* definition of the wrapper.
C4_ExactlyOneVariant ==
    /\ ~(force_static /\ force_dynamic) => (DynamicCfg # StaticCfg)
    /\ Compiled => Cardinality(internal) = 1

C4_Witness ==
    /\ stage = "built"
    /\ force_static /\ debug_assertions
    /\ StaticCfg /\ ~DynamicCfg
    /\ internal = {"frozen"}

\* C5: the build fails exactly when both features are enabled, whatever the
\* profile, and from that configuration new, deref and replace never run.
C5_BothSwitchesRejected ==
    /\ (force_static /\ force_dynamic)
          => /\ stage \in {"unbuilt", "build_error"}
             /\ handed = <<>> /\ lastRead = NoRead /\ stderr = <<>>
    /\ stage = "build_error" => (force_static /\ force_dynamic)

C5_Witness ==
    /\ stage = "build_error"
    /\ force_static /\ force_dynamic /\ ~debug_assertions

\* C6: in the plain-field variant the diagnostic stream holds exactly one
\* warning line per replace call made; new and reads add none.
C6_OneWarningPerReplace ==
    (Frozen /\ Alive)
        => /\ Len(stderr) = Len(handed) - 1
           /\ \A i \in 1..Len(stderr) : stderr[i] = WarningLine

C6_Witness ==
    /\ Frozen
    /\ Len(stderr) = MaxHanded - 1
    /\ lastRead.len = MaxHanded

\* C7: in both variants a read made with no replace since new yields the
\* value given to new, and taking, using or releasing a reference leaves the
\* stored value untouched.
C7_ConstructionIdentity ==
    [][/\ (lastRead'.len = 1) => (lastRead'.got = handed'[1])
       /\ (held' # held \/ lastRead' # lastRead)
             => (cell' = cell /\ handed' = handed /\ dropCount' = dropCount)]_vars

C7_Witness ==
    /\ lastRead.len = 1
    /\ lastRead.got = handed[1]
    /\ handed[1] = MaxValue
    /\ cell = 1 /\ dropCount[1] = 0

C9_ReferenceEpoch ==
    Mutable
        => \A t \in Threads :
              held[t] # NoRef
                 => /\ Valid(held[t]) => held[t].epoch = epoch
                    /\ (~raced /\ held[t].epoch = epoch) => Valid(held[t])

C9_Witness ==
    /\ Mutable
    /\ \E t, u \in Threads :
          /\ held[t] # NoRef /\ held[t].epoch < epoch /\ ~Valid(held[t])
          /\ held[u].epoch = epoch /\ Valid(held[u])

\* C10: in the UnsafeCell variant, when no replace overlapped another one,
\* no value is ever dropped twice; between calls the wrapper holds exactly
\* one live value and every other value handed to it has been dropped once;
\* after the wrapper is dropped every value has been dropped exactly once.
C10_DroppedExactlyOnce ==
    (Mutable /\ Alive /\ ~raced)
        => /\ \A i \in Objects : dropCount[i] <= 1
           /\ (stage = "constructed" /\ \A t \in Threads : pc[t] = "idle")
                 => /\ cell \in Objects /\ dropCount[cell] = 0
                    /\ \A i \in Objects \ {cell} : dropCount[i] = 1
           /\ stage = "dropped" => \A i \in Objects : dropCount[i] = 1

C10_Witness ==
    /\ Mutable /\ ~raced
    /\ stage = "dropped"
    /\ Len(handed) = MaxHanded
    /\ \A i \in Objects : dropCount[i] = 1

====
